---------------------------- MODULE Spec2Model ----------------------------
(***************************************************************************)
(* GPX upload pipeline of services/gpx_processing_service.py               *)
(* (GPXProcessingService) with the validators of utils.py.                 *)
(*                                                                         *)
(* Number conventions                                                      *)
(*  - lat / lon are integers counting units of 5e-8 degree from a whole    *)
(*    degree origin, so 1e-7 degree is 2 units, the dedup tolerance 1e-6   *)
(*    is 20 units and the Douglas-Peucker epsilon 1e-5 is 200 units.       *)
(*  - an elevation is an exact fraction <<num, den>> of metres.            *)
(*  - a time string is <<t>>: the ISO string of the instant t, counted in  *)
(*    microseconds.                                                        *)
(*  - Python's None is the empty tuple, a present value x is <<x>>.        *)
(*  - a text (filename, content type) is a tuple of tokens: "." ";" " "    *)
(*    and words that contain none of these.                                *)
(*  - a distance in degree-space is kept as the pair <<lat_diff, lon_diff>>  *)
(*    of the legs whose hypotenuse it is.                                  *)
(*  - the point dicts live in heap (a tuple indexed by reference); a list  *)
(*    of points is a tuple of references, so that two lists can share      *)
(*    dicts exactly as the Python lists do.                                *)
(***************************************************************************)
EXTENDS Integers, Sequences, FiniteSets, TLC

VARIABLES pc, filename, content_type, file_size, include_metadata,
          quality_level, heap, track_points, enhanced_points, parsed,
          trace, result, error

vars == <<pc, filename, content_type, file_size, include_metadata,
          quality_level, heap, track_points, enhanced_points, parsed,
          trace, result, error>>

(***************************************************************************)
(* Bounds of the model.                                                    *)
(***************************************************************************)
MaxLen == 4
MaxUploadLen == 3
MaxCoordLen == 4
MaxProfileLen == 11
MaxRun == 2
MaxTimeLen == 5
MaxStatLen == 3

(***************************************************************************)
(* Program constants.                                                      *)
(***************************************************************************)
MAX_FILE_SIZE_BYTES == 10485760
Tolerance == 20
CoordGrid == 2
ElevationDigits == 100
Epsilon == 200
UnitsPerDegree == 20000000
MinSpan == 20000
FractionDigits == 8
MaxSample == 100

None == <<>>
Some(x) == <<x>>

Abs(x) == IF x < 0 THEN -x ELSE x
Max2(a, b) == IF a > b THEN a ELSE b
Min2(a, b) == IF a < b THEN a ELSE b
SetMax(S) == CHOOSE x \in S : \A y \in S : y <= x
SetMin(S) == CHOOSE x \in S : \A y \in S : x <= y

(***************************************************************************)
(* Exact fractions <<num, den>>, den > 0, in lowest terms: the values the  *)
(* float expressions of the code take on the decimal inputs of the model.  *)
(***************************************************************************)
RECURSIVE GCD(_, _)
GCD(a, b) == IF b = 0 THEN a ELSE GCD(b, a % b)

Norm(n, d) ==
    LET g == GCD(Abs(n), d)
    IN  <<n \div g, d \div g>>

Zero == <<0, 1>>
Rat(n) == <<n, 1>>
RAdd(p, q) == Norm(p[1] * q[2] + q[1] * p[2], p[2] * q[2])
RScale(p, k) == Norm(p[1] * k, p[2])
RDivInt(p, k) == Norm(p[1], p[2] * k)
RLess(p, q) == p[1] * q[2] < q[1] * p[2]
RMin(p, q) == IF RLess(q, p) THEN q ELSE p

\* n / d rounded to the nearest integer, a tie going to the even neighbour
\* (Python's round() and timedelta division).
DivideNearest(n, d) ==
    LET f == n \div d
        r == n % d
    IN  IF 2 * r < d THEN f
        ELSE IF 2 * r > d THEN f + 1
        ELSE IF f % 2 = 0 THEN f ELSE f + 1

\* round(q, digits) with scale = 10^digits
RRound(q, scale) == Norm(DivideNearest(q[1] * scale, q[2]), scale)

\* round(x, 7) of a coordinate
RoundCoord(v) == CoordGrid * DivideNearest(v, CoordGrid)

(***************************************************************************)
(* Texts: str.lower(), str.strip(), str.split(';')[0], rsplit('.', 1)[1].  *)
(***************************************************************************)
LowerWord(w) ==
    CASE w = "GPX" -> "gpx"
      [] w = "Gpx" -> "gpx"
      [] w = "TXT" -> "txt"
      [] w = "TRACK" -> "track"
      [] w = "TEXT/XML" -> "text/xml"
      [] w = "Application/GPX+XML" -> "application/gpx+xml"
      [] w = "IMAGE/PNG" -> "image/png"
      [] OTHER -> w

Lower(text) == [i \in 1..Len(text) |-> LowerWord(text[i])]

Contains(text, token) == \E i \in 1..Len(text) : text[i] = token

\* text.rsplit('.', 1)[1]: what follows the last "."
AfterLastDot(text) ==
    LET last == SetMax({i \in 1..Len(text) : text[i] = "."})
    IN  SubSeq(text, last + 1, Len(text))

\* text.split(';')[0]: what precedes the first ";"
BeforeFirstSemicolon(text) ==
    IF Contains(text, ";")
    THEN SubSeq(text, 1, SetMin({i \in 1..Len(text) : text[i] = ";"}) - 1)
    ELSE text

\* text.strip()
Strip(text) ==
    LET solid == {i \in 1..Len(text) : text[i] # " "}
    IN  IF solid = {} THEN <<>> ELSE SubSeq(text, SetMin(solid), SetMax(solid))

GPX_EXTENSIONS == {<<"gpx">>}

\* utils.validate_file_extension
validate_file_extension(name, allowed_extensions) ==
    IF name = <<>> THEN FALSE
    ELSE Contains(name, ".") /\ Lower(AfterLastDot(name)) \in allowed_extensions

\* validate_file_size refusing a file of exactly the maximum size
validate_file_size_below(size, max_size) == 0 < size /\ size < max_size

\* utils.validate_file_size
validate_file_size(size, max_size) == 0 < size /\ size <= max_size

\* validate_content_type comparing the whole header value, parameters
\* included
validate_content_type_whole(ctype, expected_types) ==
    IF ctype = <<>> THEN FALSE
    ELSE Lower(Strip(ctype)) \in expected_types

\* utils.validate_content_type
validate_content_type(ctype, expected_types) ==
    IF ctype = <<>> THEN FALSE
    ELSE Lower(Strip(BeforeFirstSemicolon(ctype))) \in expected_types

\* utils.get_expected_content_types_for_extension
get_expected_content_types_for_extension(extension) ==
    CASE extension = <<"png">> -> {<<"image/png">>}
      [] extension \in {<<"jpg">>, <<"jpeg">>} -> {<<"image/jpeg">>}
      [] extension = <<"gif">> -> {<<"image/gif">>}
      [] extension = <<"bmp">> -> {<<"image/bmp">>}
      [] extension = <<"tiff">> -> {<<"image/tiff">>}
      [] extension = <<"webp">> -> {<<"image/webp">>}
      [] extension = <<"avif">> -> {<<"image/avif">>}
      [] extension = <<"gpx">> ->
           {<<"application/gpx+xml">>, <<"text/xml">>, <<"application/xml">>,
            <<"text/plain">>, <<"application/octet-stream">>}
      [] OTHER -> {}

ExtensionError == "File must be a GPX file"
ContentTypeError == "Invalid file type. Expected GPX file but received"
TooLargeError == "File too large. Maximum size is 10MB"
EmptyError == "Empty file uploaded"
ParseError == "Error processing GPX file"

\* validate_gpx_file with the size check moved before the content-type check
validate_gpx_file_swapped(name, ctype, size) ==
    IF ~validate_file_extension(name, GPX_EXTENSIONS) THEN Some(ExtensionError)
    ELSE IF ~validate_file_size(size, MAX_FILE_SIZE_BYTES) THEN Some(TooLargeError)
    ELSE LET file_extension ==
                 IF Contains(name, ".") THEN Lower(AfterLastDot(name)) ELSE <<>>
             expected_content_types ==
                 get_expected_content_types_for_extension(file_extension)
         IN  IF ~validate_content_type(ctype, expected_content_types)
             THEN Some(ContentTypeError)
             ELSE IF size = 0 THEN Some(EmptyError)
             ELSE None

\* GPXProcessingService.validate_gpx_file: None when nothing is raised, else
\* the message of the FileUploadError raised.
validate_gpx_file(name, ctype, size) ==
    IF ~validate_file_extension(name, GPX_EXTENSIONS) THEN Some(ExtensionError)
    ELSE LET file_extension ==
                 IF Contains(name, ".") THEN Lower(AfterLastDot(name)) ELSE <<>>
             expected_content_types ==
                 get_expected_content_types_for_extension(file_extension)
         IN  IF ~validate_content_type(ctype, expected_content_types)
             THEN Some(ContentTypeError)
             ELSE IF ~validate_file_size(size, MAX_FILE_SIZE_BYTES)
             THEN Some(TooLargeError)
             ELSE IF size = 0 THEN Some(EmptyError)
             ELSE None

(***************************************************************************)
(* Track points.  A list is a tuple of references into a heap h.           *)
(***************************************************************************)
Point(lat, lon, elevation, time) ==
    [lat |-> lat, lon |-> lon, elevation |-> elevation, time |-> time]

Values(h, l) == [i \in 1..Len(l) |-> h[l[i]]]

\* the loop of _remove_duplicate_points keeping every point whose
\* coordinates are not exactly those of the last point kept
RECURSIVE DedupFromExact(_, _, _, _)
DedupFromExact(h, l, i, filtered_points) ==
    IF i > Len(l) THEN filtered_points
    ELSE LET current == h[l[i]]
             previous == h[filtered_points[Len(filtered_points)]]
         IN  DedupFromExact(h, l, i + 1,
                 IF current.lat # previous.lat \/ current.lon # previous.lon
                 THEN Append(filtered_points, l[i])
                 ELSE filtered_points)

\* the loop of _remove_duplicate_points comparing each point with the input
\* point before it instead of the last point kept
RECURSIVE DedupFromPrevious(_, _, _, _)
DedupFromPrevious(h, l, i, filtered_points) ==
    IF i > Len(l) THEN filtered_points
    ELSE LET current == h[l[i]]
             previous == h[l[i - 1]]
             lat_diff == Abs(current.lat - previous.lat)
             lon_diff == Abs(current.lon - previous.lon)
         IN  DedupFromPrevious(h, l, i + 1,
                 IF lat_diff > Tolerance \/ lon_diff > Tolerance
                 THEN Append(filtered_points, l[i])
                 ELSE filtered_points)

\* GPXProcessingService._remove_duplicate_points
RECURSIVE DedupFrom(_, _, _, _)
DedupFrom(h, l, i, filtered_points) ==
    IF i > Len(l) THEN filtered_points
    ELSE LET current == h[l[i]]
             previous == h[filtered_points[Len(filtered_points)]]
             lat_diff == Abs(current.lat - previous.lat)
             lon_diff == Abs(current.lon - previous.lon)
         IN  DedupFrom(h, l, i + 1,
                 IF lat_diff > Tolerance \/ lon_diff > Tolerance
                 THEN Append(filtered_points, l[i])
                 ELSE filtered_points)

remove_duplicate_points(h, l) ==
    IF Len(l) < 2 THEN [heap |-> h, list |-> l]
    ELSE [heap |-> h, list |-> DedupFrom(h, l, 2, <<l[1]>>)]

\* the body of the loop of _fix_coordinate_precision rounding a missing
\* elevation as 0
FixedPointZeroFill(point) ==
    [point EXCEPT
        !.lat = RoundCoord(point.lat),
        !.lon = RoundCoord(point.lon),
        !.elevation = IF point.elevation # None
                      THEN Some(RRound(point.elevation[1], ElevationDigits))
                      ELSE Some(Zero)]

\* the body of the loop of _fix_coordinate_precision on one dict
FixedPoint(point) ==
    [point EXCEPT
        !.lat = RoundCoord(point.lat),
        !.lon = RoundCoord(point.lon),
        !.elevation = IF point.elevation # None
                      THEN Some(RRound(point.elevation[1], ElevationDigits))
                      ELSE None]

\* _fix_coordinate_precision writing the rounded values into the dicts it
\* was given instead of into copies
fix_coordinate_precision_in_place(h, l) ==
    [heap |-> [r \in 1..Len(h) |->
                  IF \E i \in 1..Len(l) : l[i] = r THEN FixedPoint(h[r]) ELSE h[r]],
     list |-> l]

\* GPXProcessingService._fix_coordinate_precision: every dict is copied
\* (point.copy()), the copies are new objects at the end of the heap
fix_coordinate_precision(h, l) ==
    [heap |-> h \o [i \in 1..Len(l) |-> FixedPoint(h[l[i]])],
     list |-> [i \in 1..Len(l) |-> Len(h) + i]]

\* the positions of a set of positions, in increasing order
RECURSIVE Ascending(_)
Ascending(S) ==
    IF S = {} THEN <<>> ELSE <<SetMin(S)>> \o Ascending(S \ {SetMin(S)})

RECURSIVE RSum(_)
RSum(values) ==
    IF values = <<>> THEN Zero ELSE RAdd(values[1], RSum(Tail(values)))

\* the elevations present at list positions lo..hi, in order
RECURSIVE ElevationValues(_, _, _, _)
ElevationValues(h, l, lo, hi) ==
    IF lo > hi THEN <<>>
    ELSE (IF h[l[lo]].elevation # None THEN <<h[l[lo]].elevation[1]>> ELSE <<>>)
         \o ElevationValues(h, l, lo + 1, hi)

\* the loop of _smooth_elevation_data with the half-width of the window
\* rounded up: a window of one point reaches its two neighbours
RECURSIVE SmoothFromCeil(_, _, _, _)
SmoothFromCeil(h, l, window_size, i) ==
    IF i > Len(l) THEN h
    ELSE IF h[l[i]].elevation = None THEN SmoothFromCeil(h, l, window_size, i + 1)
    ELSE LET half == (window_size + 1) \div 2
             elevation_values ==
                 ElevationValues(h, l, Max2(1, i - half), Min2(Len(l), i + half))
             mean == RDivInt(RSum(elevation_values), Len(elevation_values))
         IN  SmoothFromCeil([h EXCEPT ![l[i]].elevation = Some(mean)],
                            l, window_size, i + 1)

\* the loop of _smooth_elevation_data from position i on: each dict is
\* written in place, so later windows read the values already written
RECURSIVE SmoothFrom(_, _, _, _)
SmoothFrom(h, l, window_size, i) ==
    IF i > Len(l) THEN h
    ELSE IF h[l[i]].elevation = None THEN SmoothFrom(h, l, window_size, i + 1)
    ELSE LET half == window_size \div 2
             elevation_values ==
                 ElevationValues(h, l, Max2(1, i - half), Min2(Len(l), i + half))
             mean == RDivInt(RSum(elevation_values), Len(elevation_values))
         IN  SmoothFrom([h EXCEPT ![l[i]].elevation = Some(mean)],
                        l, window_size, i + 1)

\* _smooth_elevation_data with a window of three points whatever the number
\* of elevations
smooth_elevation_data_wide(h, l) ==
    LET points_with_elevation ==
            {i \in 1..Len(l) : h[l[i]].elevation # None}
        n_elev == Cardinality(points_with_elevation)
    IN  IF n_elev < 3 THEN [heap |-> h, list |-> l]
        ELSE [heap |-> SmoothFrom(h, l, 3, 1), list |-> l]

\* _smooth_elevation_data returning the points it collected in
\* points_with_elevation instead of the whole track
smooth_elevation_data_elevated(h, l) ==
    LET points_with_elevation ==
            {i \in 1..Len(l) : h[l[i]].elevation # None}
        n_elev == Cardinality(points_with_elevation)
    IN  IF n_elev < 3 THEN [heap |-> h, list |-> l]
        ELSE [heap |-> SmoothFrom(h, l, Min2(5, n_elev \div 10 + 1), 1),
              list |-> [k \in 1..n_elev |-> l[Ascending(points_with_elevation)[k]]]]

\* GPXProcessingService._smooth_elevation_data
smooth_elevation_data(h, l) ==
    LET points_with_elevation ==
            {i \in 1..Len(l) : h[l[i]].elevation # None}
        n_elev == Cardinality(points_with_elevation)
    IN  IF n_elev < 3 THEN [heap |-> h, list |-> l]
        ELSE [heap |-> SmoothFrom(h, l, Min2(5, n_elev \div 10 + 1), 1),
              list |-> l]

\* datetime.fromisoformat succeeds on the time string
Parsable(time) == Len(time) = 1

\* the inner loop of _interpolate_missing_timestamps dividing the gap into
\* points_between parts instead of points_between + 1
FillGapShort(h, l, start_idx, points_between, start_time, time_diff) ==
    [r \in 1..Len(h) |->
        IF \E j \in 1..points_between : l[start_idx + j] = r
        THEN LET j == SetMax({k \in 1..points_between : l[start_idx + k] = r})
             IN  [h[r] EXCEPT !.time =
                     Some(start_time + DivideNearest(time_diff * j, points_between))]
        ELSE h[r]]

\* the inner loop of _interpolate_missing_timestamps for one gap
FillGap(h, l, start_idx, points_between, start_time, time_diff) ==
    [r \in 1..Len(h) |->
        IF \E j \in 1..points_between : l[start_idx + j] = r
        THEN LET j == SetMax({k \in 1..points_between : l[start_idx + k] = r})
             IN  [h[r] EXCEPT !.time =
                     Some(start_time + DivideNearest(time_diff * j, points_between + 1))]
        ELSE h[r]]

\* the outer loop of _interpolate_missing_timestamps giving up at the first
\* gap whose boundary does not parse (break instead of continue)
RECURSIVE InterpolateFromBreak(_, _, _, _)
InterpolateFromBreak(h, l, points_with_time, i) ==
    IF i > Len(points_with_time) - 1 THEN h
    ELSE LET start_idx == points_with_time[i]
             end_idx == points_with_time[i + 1]
             start_point == h[l[start_idx]]
             end_point == h[l[end_idx]]
         IN  IF end_idx - start_idx > 1
             THEN IF Parsable(start_point.time) /\ Parsable(end_point.time)
                  THEN InterpolateFromBreak(
                           FillGap(h, l, start_idx, end_idx - start_idx - 1,
                                   start_point.time[1],
                                   end_point.time[1] - start_point.time[1]),
                           l, points_with_time, i + 1)
                  ELSE h
             ELSE InterpolateFromBreak(h, l, points_with_time, i + 1)

\* the outer loop of _interpolate_missing_timestamps over the consecutive
\* pairs of points_with_time, from pair i on
RECURSIVE InterpolateFrom(_, _, _, _)
InterpolateFrom(h, l, points_with_time, i) ==
    IF i > Len(points_with_time) - 1 THEN h
    ELSE LET start_idx == points_with_time[i]
             end_idx == points_with_time[i + 1]
             start_point == h[l[start_idx]]
             end_point == h[l[end_idx]]
         IN  IF end_idx - start_idx > 1
                /\ Parsable(start_point.time) /\ Parsable(end_point.time)
             THEN InterpolateFrom(
                      FillGap(h, l, start_idx, end_idx - start_idx - 1,
                              start_point.time[1],
                              end_point.time[1] - start_point.time[1]),
                      l, points_with_time, i + 1)
             ELSE InterpolateFrom(h, l, points_with_time, i + 1)

\* GPXProcessingService._interpolate_missing_timestamps
interpolate_missing_timestamps(h, l) ==
    LET points_with_time ==
            Ascending({i \in 1..Len(l) : h[l[i]].time # None})
    IN  IF Len(points_with_time) < 2 THEN [heap |-> h, list |-> l]
        ELSE [heap |-> InterpolateFrom(h, l, points_with_time, 1), list |-> l]

(***************************************************************************)
(* Douglas-Peucker.  perpendicular_distance is numerator / denominator     *)
(* with denominator = sqrt(denominator_sq), and 0 when the denominator is  *)
(* 0.  All distances of one span share the denominator, so the scan for    *)
(* the maximum compares numerators; the comparison with epsilon is made    *)
(* on the squares.                                                         *)
(***************************************************************************)
Numerator(point, line_start, line_end) ==
    LET x0 == point.lat
        y0 == point.lon
        x1 == line_start.lat
        y1 == line_start.lon
        x2 == line_end.lat
        y2 == line_end.lon
    IN  Abs((y2 - y1) * x0 - (x2 - x1) * y0 + x2 * y1 - y2 * x1)

DenominatorSq(line_start, line_end) ==
    (line_end.lon - line_start.lon) * (line_end.lon - line_start.lon)
    + (line_end.lat - line_start.lat) * (line_end.lat - line_start.lat)

\* perpendicular_distance(...) >= epsilon: the comparison of line 479 made
\* not strict
DistanceReaches(numerator, denominator_sq, epsilon) ==
    LET g == Max2(1, GCD(numerator, epsilon))
    IN  IF denominator_sq = 0 THEN epsilon <= 0
        ELSE (numerator \div g) * (numerator \div g)
                 >= (epsilon \div g) * (epsilon \div g) * denominator_sq

\* perpendicular_distance(...) > epsilon, that is numerator^2 >
\* epsilon^2 * denominator_sq; the common factor of numerator and epsilon is
\* divided out of both sides before squaring
DistanceExceeds(numerator, denominator_sq, epsilon) ==
    LET g == Max2(1, GCD(numerator, epsilon))
    IN  /\ denominator_sq > 0
        /\ (numerator \div g) * (numerator \div g)
               > (epsilon \div g) * (epsilon \div g) * denominator_sq

\* the scan for the maximum in which a later point that is equally far
\* replaces the maximum
RECURSIVE ScanMaxLast(_, _, _, _, _)
ScanMaxLast(h, points, i, max_numerator, max_index) ==
    IF i > Len(points) - 1 THEN <<max_numerator, max_index>>
    ELSE LET numerator ==
                 IF DenominatorSq(h[points[1]], h[points[Len(points)]]) > 0
                 THEN Numerator(h[points[i]], h[points[1]], h[points[Len(points)]])
                 ELSE 0
         IN  IF numerator >= max_numerator
             THEN ScanMaxLast(h, points, i + 1, numerator, i)
             ELSE ScanMaxLast(h, points, i + 1, max_numerator, max_index)

\* the scan "for i in range(1, len(points) - 1)": the numerator of the
\* maximum so far and its index (0-based position + 1); a later point
\* replaces the maximum only when strictly farther
RECURSIVE ScanMax(_, _, _, _, _)
ScanMax(h, points, i, max_numerator, max_index) ==
    IF i > Len(points) - 1 THEN <<max_numerator, max_index>>
    ELSE LET numerator ==
                 IF DenominatorSq(h[points[1]], h[points[Len(points)]]) > 0
                 THEN Numerator(h[points[i]], h[points[1]], h[points[Len(points)]])
                 ELSE 0
         IN  IF numerator > max_numerator
             THEN ScanMax(h, points, i + 1, numerator, i)
             ELSE ScanMax(h, points, i + 1, max_numerator, max_index)

\* douglas_peucker_recursive keeping the split point in both halves
RECURSIVE douglas_peucker_recursive_dup(_, _, _)
douglas_peucker_recursive_dup(h, points, epsilon) ==
    IF Len(points) < 3 THEN points
    ELSE LET m == ScanMax(h, points, 2, 0, 1)
             max_index == m[2]
         IN  IF DistanceExceeds(m[1],
                    DenominatorSq(h[points[1]], h[points[Len(points)]]), epsilon)
             THEN douglas_peucker_recursive_dup(h, SubSeq(points, 1, max_index), epsilon)
                  \o douglas_peucker_recursive_dup(
                         h, SubSeq(points, max_index, Len(points)), epsilon)
             ELSE <<points[1], points[Len(points)]>>

\* douglas_peucker_recursive returning only the first point of a span it
\* collapses
RECURSIVE douglas_peucker_recursive_head(_, _, _)
douglas_peucker_recursive_head(h, points, epsilon) ==
    IF Len(points) < 3 THEN points
    ELSE LET m == ScanMax(h, points, 2, 0, 1)
             max_index == m[2]
         IN  IF DistanceExceeds(m[1],
                    DenominatorSq(h[points[1]], h[points[Len(points)]]), epsilon)
             THEN LET left_results ==
                          douglas_peucker_recursive_head(
                              h, SubSeq(points, 1, max_index), epsilon)
                      right_results ==
                          douglas_peucker_recursive_head(
                              h, SubSeq(points, max_index, Len(points)), epsilon)
                  IN  SubSeq(left_results, 1, Len(left_results) - 1) \o right_results
             ELSE <<points[1]>>

\* douglas_peucker_recursive (nested in _apply_douglas_peucker_simplification)
RECURSIVE douglas_peucker_recursive(_, _, _)
douglas_peucker_recursive(h, points, epsilon) ==
    IF Len(points) < 3 THEN points
    ELSE LET m == ScanMax(h, points, 2, 0, 1)
             max_index == m[2]
         IN  IF DistanceExceeds(m[1],
                    DenominatorSq(h[points[1]], h[points[Len(points)]]), epsilon)
             THEN LET left_results ==
                          douglas_peucker_recursive(
                              h, SubSeq(points, 1, max_index), epsilon)
                      right_results ==
                          douglas_peucker_recursive(
                              h, SubSeq(points, max_index, Len(points)), epsilon)
                  IN  SubSeq(left_results, 1, Len(left_results) - 1) \o right_results
             ELSE <<points[1], points[Len(points)]>>

\* _apply_douglas_peucker_simplification with an epsilon of 1e-4
apply_douglas_peucker_simplification_coarse(h, l) ==
    IF Len(l) < 3 THEN [heap |-> h, list |-> l]
    ELSE [heap |-> h, list |-> douglas_peucker_recursive(h, l, 10 * Epsilon)]

\* GPXProcessingService._apply_douglas_peucker_simplification
apply_douglas_peucker_simplification(h, l) ==
    IF Len(l) < 3 THEN [heap |-> h, list |-> l]
    ELSE [heap |-> h, list |-> douglas_peucker_recursive(h, l, Epsilon)]

(***************************************************************************)
(* Quality assessment.                                                     *)
(***************************************************************************)
RECURSIVE TrailingZeros(_)
TrailingZeros(n) == IF n % 10 # 0 THEN 0 ELSE 1 + TrailingZeros(n \div 10)

\* len(str(x).split('.')[-1]) for the float x of coordinate v: the digits
\* after the point of its shortest decimal form ("52.0" has one)
Decimals(v) ==
    LET fraction == (v * 5) % (10 ^ FractionDigits)
    IN  IF fraction = 0 THEN 1 ELSE FractionDigits - TrailingZeros(fraction)

RECURSIVE PrecisionSum(_, _)
PrecisionSum(points, k) ==
    IF k = 0 THEN Zero
    ELSE RAdd(PrecisionSum(points, k - 1),
              Norm(Decimals(points[k].lat) + Decimals(points[k].lon), 2))

\* _assess_data_quality with the span floored at 0.01 degree
assess_data_quality_floor(points) ==
    IF points = <<>>
    THEN [quality_score |-> Zero, density |-> "unknown", precision |-> "unknown"]
    ELSE LET n == Len(points)
             lats == {points[i].lat : i \in 1..n}
             lons == {points[i].lon : i \in 1..n}
             lat_span == Abs(SetMax(lats) - SetMin(lats))
             lon_span == Abs(SetMax(lons) - SetMin(lons))
             total_span == Max2(lat_span + lon_span, 10 * MinSpan)
             density == IF n >= 2 THEN Norm(n * UnitsPerDegree, total_span) ELSE Zero
             sampled == Min2(MaxSample, n)
             avg_precision == RDivInt(PrecisionSum(points, sampled), sampled)
             quality_score ==
                 RMin(Rat(100), RAdd(RScale(density, 10), RScale(avg_precision, 5)))
         IN  [quality_score |-> RRound(quality_score, 100),
              density |-> IF RLess(Rat(50), density) THEN "high"
                          ELSE IF RLess(Rat(10), density) THEN "medium" ELSE "low",
              precision |-> IF RLess(Rat(6), avg_precision) THEN "high"
                            ELSE IF RLess(Rat(4), avg_precision) THEN "medium"
                            ELSE "low",
              points_per_degree |-> RRound(density, 100),
              avg_decimal_places |-> RRound(avg_precision, 10)]

\* _assess_data_quality without the cap of the score at 100
assess_data_quality_uncapped(points) ==
    IF points = <<>>
    THEN [quality_score |-> Zero, density |-> "unknown", precision |-> "unknown"]
    ELSE LET n == Len(points)
             lats == {points[i].lat : i \in 1..n}
             lons == {points[i].lon : i \in 1..n}
             lat_span == Abs(SetMax(lats) - SetMin(lats))
             lon_span == Abs(SetMax(lons) - SetMin(lons))
             total_span == Max2(lat_span + lon_span, MinSpan)
             density == IF n >= 2 THEN Norm(n * UnitsPerDegree, total_span) ELSE Zero
             sampled == Min2(MaxSample, n)
             avg_precision == RDivInt(PrecisionSum(points, sampled), sampled)
             quality_score ==
                 RAdd(RScale(density, 10), RScale(avg_precision, 5))
         IN  [quality_score |-> RRound(quality_score, 100),
              density |-> IF RLess(Rat(50), density) THEN "high"
                          ELSE IF RLess(Rat(10), density) THEN "medium" ELSE "low",
              precision |-> IF RLess(Rat(6), avg_precision) THEN "high"
                            ELSE IF RLess(Rat(4), avg_precision) THEN "medium"
                            ELSE "low",
              points_per_degree |-> RRound(density, 100),
              avg_decimal_places |-> RRound(avg_precision, 10)]

\* GPXProcessingService._assess_data_quality on the dicts' values
assess_data_quality(points) ==
    IF points = <<>>
    THEN [quality_score |-> Zero, density |-> "unknown", precision |-> "unknown"]
    ELSE LET n == Len(points)
             lats == {points[i].lat : i \in 1..n}
             lons == {points[i].lon : i \in 1..n}
             lat_span == Abs(SetMax(lats) - SetMin(lats))
             lon_span == Abs(SetMax(lons) - SetMin(lons))
             total_span == Max2(lat_span + lon_span, MinSpan)
             density == IF n >= 2 THEN Norm(n * UnitsPerDegree, total_span) ELSE Zero
             sampled == Min2(MaxSample, n)
             avg_precision == RDivInt(PrecisionSum(points, sampled), sampled)
             quality_score ==
                 RMin(Rat(100), RAdd(RScale(density, 10), RScale(avg_precision, 5)))
         IN  [quality_score |-> RRound(quality_score, 100),
              density |-> IF RLess(Rat(50), density) THEN "high"
                          ELSE IF RLess(Rat(10), density) THEN "medium" ELSE "low",
              precision |-> IF RLess(Rat(6), avg_precision) THEN "high"
                            ELSE IF RLess(Rat(4), avg_precision) THEN "medium"
                            ELSE "low",
              points_per_degree |-> RRound(density, 100),
              avg_decimal_places |-> RRound(avg_precision, 10)]

(***************************************************************************)
(* Statistics.                                                             *)
(***************************************************************************)
RMax(p, q) == IF RLess(p, q) THEN q ELSE p

\* min(elevations) and max(elevations) of a non-empty list
RECURSIVE RMinOf(_)
RMinOf(values) ==
    IF Len(values) = 1 THEN values[1] ELSE RMin(values[1], RMinOf(Tail(values)))

RECURSIVE RMaxOf(_)
RMaxOf(values) ==
    IF Len(values) = 1 THEN values[1] ELSE RMax(values[1], RMaxOf(Tail(values)))

\* the elevations of a list of point values, a missing one counted as 0
PresentElevationsZeroFill(points) ==
    [i \in 1..Len(points) |->
        IF points[i].elevation # None THEN points[i].elevation[1] ELSE Zero]

\* the elevations present in a list of point values, in order
PresentElevations(points) ==
    LET present == {i \in 1..Len(points) : points[i].elevation # None}
    IN  [k \in 1..Cardinality(present) |->
            points[Ascending(present)[k]].elevation[1]]

\* GPXProcessingService.calculate_track_statistics on the dicts' values
calculate_track_statistics(points) ==
    IF points = <<>>
    THEN [total_points |-> 0,
          has_elevation |-> FALSE,
          has_time |-> FALSE,
          elevation_range |-> None,
          distance_estimate |-> None,
          data_quality |-> None]
    ELSE LET has_elevation == \E i \in 1..Len(points) : points[i].elevation # None
             has_time == \E i \in 1..Len(points) : points[i].time # None
             elevations == PresentElevations(points)
             first_point == points[1]
             last_point == points[Len(points)]
             lat_diff == Abs(last_point.lat - first_point.lat)
             lon_diff == Abs(last_point.lon - first_point.lon)
         IN  [total_points |-> Len(points),
              has_elevation |-> has_elevation,
              has_time |-> has_time,
              elevation_range |->
                  IF has_elevation /\ elevations # <<>>
                  THEN Some([min |-> RMinOf(elevations),
                             max |-> RMaxOf(elevations),
                             difference |->
                                 RAdd(RMaxOf(elevations),
                                      RScale(RMinOf(elevations), -1))])
                  ELSE None,
              distance_estimate |->
                  IF Len(points) >= 2 THEN Some(<<lat_diff, lon_diff>>) ELSE None,
              data_quality |-> Some(assess_data_quality(points))]

(***************************************************************************)
(* The inputs of the model.                                                *)
(***************************************************************************)
FilenameSamples ==
    { <<>>,
      <<"track">>,
      <<"track", ".", "gpx">>,
      <<"TRACK", ".", "GPX">>,
      <<"track", ".", "gpx", ".", "txt">> }

ContentTypeSamples ==
    { <<>>,
      <<"application/gpx+xml">>,
      <<" ", "TEXT/XML", ";", " ", "charset=utf-8">>,
      <<"image/png">>,
      <<"text/html", ";", "text/xml">> }

SizeSamples == {0, 1, MAX_FILE_SIZE_BYTES, MAX_FILE_SIZE_BYTES + 1}

\* the filenames and content types of the calls of validate_gpx_file alone
ValidateFilenames ==
    FilenameSamples \cup
    { <<"gpx">>,
      <<"track", ".">>,
      <<".", "gpx">>,
      <<"track", ".", "Gpx">>,
      <<"track", ".", "txt", ".", "gpx">>,
      <<"track", ".", "gpx", " ">>,
      <<"track", ".", "png">> }

ValidateContentTypes ==
    ContentTypeSamples \cup
    { <<"text/xml">>,
      <<"application/xml">>,
      <<"text/plain">>,
      <<"application/octet-stream">>,
      <<"Application/GPX+XML">>,
      <<" ", "text/xml", " ">>,
      <<"text/xml", ";", "charset=utf-8">>,
      <<"text/xml", ";">>,
      <<"text/xml", ";", "a=1", ";", "b=2">>,
      <<";", "text/xml">>,
      <<" ">>,
      <<"text/html">>,
      <<"image/png", ";", "charset=utf-8">> }

QualityLevels == {"low", "medium", "high", "ultra"}

\* the points a parsed document may hold
PointSamples ==
    { Point(0, 0, Some(<<10, 1>>), Some(0)),
      Point(1, 0, None, None),
      Point(10, 215, Some(<<1001, 200>>), None),
      Point(23, 1, Some(<<3, 1>>), Some(3)) }

Tracks == UNION {[1..n -> PointSamples] : n \in 0..MaxUploadLen}

\* the points of the direct calls of the enhancement
EnhanceSamples == PointSamples \cup { Point(40, 100, Some(<<7, 1>>), None) }

EnhanceTracks == UNION {[1..n -> EnhanceSamples] : n \in 0..MaxLen}

\* a slow drift north: each step of 7e-7 degree is below the tolerance of
\* the dedup, two steps are above it
DriftSamples == { Point(14 * k, 0, None, None) : k \in 0..3 }

DriftTracks == UNION {[1..n -> DriftSamples] : n \in 0..MaxLen}

\* the coordinates of the direct calls of the simplification; no point of
\* them lies at exactly epsilon from a line through two others, where the
\* float comparison of line 479 could fall on either side
CoordSamples ==
    { Point(lat, lon, None, None) : lat \in {0, 20, 40}, lon \in {0, 190, 210} }

CoordTracks == UNION {[1..n -> CoordSamples] : n \in 0..MaxCoordLen}

\* the tracks handed to the assessor and to the statistics: the points of a
\* document within 0.001 degree, and points hundredths of a degree to a
\* degree apart, as they are or all shifted by 5e-8 degree (which makes
\* their decimal forms eight digits long); no track of them has a density
\* of exactly 10 or 50, where the float comparisons of line 300 could fall
\* on either side
SpreadSamples(shift) ==
    { Point(lat + shift, lon + shift, None, None) :
          lat \in {0, 400000, 3000000, 20000000}, lon \in {0, 600000} }

AssessTracks ==
    UNION { [1..n -> PointSamples] \cup [1..n -> SpreadSamples(0)]
                \cup [1..n -> SpreadSamples(1)] : n \in 0..MaxStatLen }

\* tracks along a meridian with one point off it: a run of before points
\* step_before apart, the outlier height off the line, a run of after
\* points step_after apart
OutlierTrack(before, step_before, height, after, step_after) ==
    [i \in 1..(before + 1 + after) |->
        IF i <= before THEN Point(step_before * (i - 1), 0, None, None)
        ELSE IF i = before + 1 THEN Point(step_before * before, height, None, None)
        ELSE Point(step_before * before + step_after * (i - before - 1), 0,
                   None, None)]

OutlierTracks ==
    { OutlierTrack(before, step_before, height, after, step_after) :
          before \in 1..MaxRun, step_before \in {100, 400},
          height \in {300, 1000},
          after \in 1..MaxRun, step_after \in {100, 400} }

\* the tracks of the calls that exercise the smoothing: points 30 units
\* apart on a meridian, every other one timestamped, elevation 10 with at
\* most one spike of 100 and at most two points without elevation
ProfilePoint(i, elevation) ==
    Point(30 * i, 0, elevation, IF i % 2 = 1 THEN Some(10 * i) ELSE None)

ElevationProfiles ==
    UNION { { [i \in 1..n |->
                 ProfilePoint(i, IF i \in missing THEN None
                                 ELSE IF i = spike THEN Some(<<100, 1>>)
                                 ELSE Some(<<10, 1>>))] :
              spike \in 0..n,
              missing \in {m \in SUBSET (1..n) : Cardinality(m) <= 2} } :
            n \in 0..MaxProfileLen }

\* a time string that datetime.fromisoformat refuses
Unparsable == <<0, 0>>

\* tracks of distinct points without elevation whose time is missing, one
\* of two instants 7 microseconds apart, or unparsable
TimeSamples == {None, Some(0), Some(7), Unparsable}

TimeTracks ==
    UNION { { [i \in 1..n |-> Point(30 * i, 0, None, times[i])] :
              times \in [1..n -> TimeSamples] } :
            n \in 0..MaxTimeLen }

(***************************************************************************)
(* enhance_track_points_for_rendering: the stages its three ifs select.    *)
(***************************************************************************)
StagePlanEager(level) ==
    (IF level \in {"medium", "high", "ultra"}
     THEN <<"dedup", "precision", "smooth">> ELSE <<>>)
    \o (IF level \in {"high", "ultra"} THEN <<"interpolate">> ELSE <<>>)
    \o (IF level = "ultra" THEN <<"simplify">> ELSE <<>>)

StagePlan(level) ==
    (IF level \in {"medium", "high", "ultra"} THEN <<"dedup", "precision">> ELSE <<>>)
    \o (IF level \in {"high", "ultra"} THEN <<"smooth", "interpolate">> ELSE <<>>)
    \o (IF level = "ultra" THEN <<"simplify">> ELSE <<>>)

\* where control goes after stage s
AfterStage(level, s) ==
    LET plan == StagePlan(level)
        k == CHOOSE i \in 1..Len(plan) : plan[i] = s
    IN  IF k = Len(plan) THEN "assess" ELSE plan[k + 1]

TraceEntry(stage, ok, points) == [stage |-> stage, ok |-> ok, points |-> points]

(***************************************************************************)
(* process_gpx_upload, one action per call it makes.                       *)
(***************************************************************************)
Init ==
    /\ pc = "validate"
    /\ filename \in FilenameSamples
    /\ content_type \in ContentTypeSamples
    /\ file_size \in SizeSamples
    /\ include_metadata \in BOOLEAN
    /\ quality_level \in QualityLevels
    /\ heap = <<>>
    /\ track_points = <<>>
    /\ enhanced_points = <<>>
    /\ parsed = <<>>
    /\ trace = <<>>
    /\ result = None
    /\ error = None

\* line 176: self.validate_gpx_file(filename, content_type, file_content)
Validate ==
    /\ pc = "validate"
    /\ LET raised == validate_gpx_file(filename, content_type, file_size)
       IN  /\ trace' = Append(trace, TraceEntry("validate", raised = None, 0))
           /\ error' = IF raised = None THEN None
                       ELSE Some([message |-> raised[1], filename |-> filename])
           /\ pc' = IF raised = None THEN "parse" ELSE "failed"
    /\ UNCHANGED <<filename, content_type, file_size, include_metadata,
                   quality_level, heap, track_points, enhanced_points, parsed,
                   result>>

\* parse_gpx_tracks returning the points read so far when gpxpy raises
ParseLenient ==
    /\ pc = "parse"
    /\ \E wellformed \in BOOLEAN :
       \E doc \in (IF wellformed THEN Tracks ELSE {<<>>}) :
          /\ trace' = Append(trace, TraceEntry("parse", wellformed, Len(doc)))
          /\ heap' = doc
          /\ track_points' = [i \in 1..Len(doc) |-> i]
          /\ parsed' = doc
          /\ error' = None
          /\ pc' = "enhance"
    /\ UNCHANGED <<filename, content_type, file_size, include_metadata,
                   quality_level, enhanced_points, result>>

\* line 179: parse_gpx_tracks; gpxpy either raises or yields the points of
\* the document
Parse ==
    /\ pc = "parse"
    /\ \E wellformed \in BOOLEAN :
       \E doc \in (IF wellformed THEN Tracks ELSE {<<>>}) :
          /\ trace' = Append(trace, TraceEntry("parse", wellformed, Len(doc)))
          /\ heap' = doc
          /\ track_points' = [i \in 1..Len(doc) |-> i]
          /\ parsed' = doc
          /\ error' = IF wellformed THEN None
                      ELSE Some([message |-> ParseError, filename |-> filename])
          /\ pc' = IF wellformed THEN "enhance" ELSE "failed"
    /\ UNCHANGED <<filename, content_type, file_size, include_metadata,
                   quality_level, enhanced_points, result>>

\* lines 323-326: the short-circuit and the copy of the list
EnhanceBegin ==
    /\ pc = "enhance"
    /\ enhanced_points' = track_points
    /\ pc' = IF Len(track_points) < 2 \/ StagePlan(quality_level) = <<>>
             THEN "assess"
             ELSE StagePlan(quality_level)[1]
    /\ UNCHANGED <<filename, content_type, file_size, include_metadata,
                   quality_level, heap, track_points, parsed, trace, result,
                   error>>

\* one stage of lines 329-338: enhanced_points = self._stage(enhanced_points),
\* r being what the stage returns
StageStep(stage, r) ==
    /\ heap' = r.heap
    /\ enhanced_points' = r.list
    /\ trace' = Append(trace, TraceEntry(stage, TRUE, Len(r.list)))
    /\ pc' = AfterStage(quality_level, stage)
    /\ UNCHANGED <<filename, content_type, file_size, include_metadata,
                   quality_level, track_points, parsed, result, error>>

Dedup ==
    /\ pc = "dedup"
    /\ StageStep("dedup", remove_duplicate_points(heap, enhanced_points))

PrecisionFix ==
    /\ pc = "precision"
    /\ StageStep("precision", fix_coordinate_precision(heap, enhanced_points))

Smooth ==
    /\ pc = "smooth"
    /\ StageStep("smooth", smooth_elevation_data(heap, enhanced_points))

Interpolate ==
    /\ pc = "interpolate"
    /\ StageStep("interpolate", interpolate_missing_timestamps(heap, enhanced_points))

Simplify ==
    /\ pc = "simplify"
    /\ StageStep("simplify", apply_douglas_peucker_simplification(heap, enhanced_points))

\* lines 184-191: the result dict; _assess_data_quality reads the dicts of
\* track_points as they are at this moment
Assemble ==
    /\ pc = "assess"
    /\ result' = Some([success |-> TRUE,
                       track_points |-> enhanced_points,
                       points_count |-> Len(enhanced_points),
                       original_points_count |-> Len(track_points),
                       quality_level |-> quality_level,
                       data_quality |->
                           assess_data_quality(Values(heap, track_points)),
                       metadata |-> "absent"])
    /\ trace' = Append(trace, TraceEntry("assess", TRUE, Len(enhanced_points)))
    /\ pc' = IF include_metadata THEN "metadata" ELSE "done"
    /\ UNCHANGED <<filename, content_type, file_size, include_metadata,
                   quality_level, heap, track_points, enhanced_points, parsed,
                   error>>

\* lines 194-201 without the except clause: the FileUploadError of
\* extract_gpx_metadata reaches the caller
MetadataRaises ==
    /\ pc = "metadata"
    /\ \E extracted \in BOOLEAN :
          /\ result' = IF extracted
                       THEN Some([result[1] EXCEPT !.metadata = "extracted"])
                       ELSE None
          /\ error' = IF extracted THEN None
                      ELSE Some([message |-> ParseError, filename |-> filename])
          /\ trace' = Append(trace,
                          TraceEntry("metadata", extracted, Len(enhanced_points)))
          /\ pc' = IF extracted THEN "done" ELSE "failed"
    /\ UNCHANGED <<filename, content_type, file_size, include_metadata,
                   quality_level, heap, track_points, enhanced_points, parsed>>

\* lines 194-201: extract_gpx_metadata raises or returns the metadata dict;
\* whatever it raises is caught
Metadata ==
    /\ pc = "metadata"
    /\ \E extracted \in BOOLEAN :
          /\ result' = Some([result[1] EXCEPT
                                !.metadata = IF extracted THEN "extracted" ELSE "none"])
          /\ trace' = Append(trace,
                          TraceEntry("metadata", extracted, Len(enhanced_points)))
    /\ pc' = "done"
    /\ UNCHANGED <<filename, content_type, file_size, include_metadata,
                   quality_level, heap, track_points, enhanced_points, parsed,
                   error>>

Next ==
    \/ Validate
    \/ Parse
    \/ EnhanceBegin
    \/ Dedup
    \/ PrecisionFix
    \/ Smooth
    \/ Interpolate
    \/ Simplify
    \/ Assemble
    \/ Metadata

Spec == Init /\ [][Next]_vars

(***************************************************************************)
(* Direct calls of enhance_track_points_for_rendering, at every level.     *)
(***************************************************************************)
InitEnhance ==
    /\ pc = "enhance"
    /\ filename = <<"track", ".", "gpx">>
    /\ content_type = <<"application/gpx+xml">>
    /\ file_size = 1
    /\ include_metadata = FALSE
    /\ quality_level \in QualityLevels
    /\ heap \in EnhanceTracks
    /\ track_points = [i \in 1..Len(heap) |-> i]
    /\ enhanced_points = <<>>
    /\ parsed = heap
    /\ trace = <<>>
    /\ result = None
    /\ error = None

NextEnhance ==
    \/ EnhanceBegin
    \/ Dedup
    \/ PrecisionFix
    \/ Smooth
    \/ Interpolate
    \/ Simplify

SpecEnhance == InitEnhance /\ [][NextEnhance]_vars

(***************************************************************************)
(* Direct calls of _apply_douglas_peucker_simplification on arbitrary      *)
(* coordinate sequences.                                                   *)
(***************************************************************************)
InitSimplify ==
    /\ pc = "simplify"
    /\ filename = <<"track", ".", "gpx">>
    /\ content_type = <<"application/gpx+xml">>
    /\ file_size = 1
    /\ include_metadata = FALSE
    /\ quality_level = "ultra"
    /\ heap \in CoordTracks \cup OutlierTracks
    /\ track_points = [i \in 1..Len(heap) |-> i]
    /\ enhanced_points = track_points
    /\ parsed = heap
    /\ trace = <<>>
    /\ result = None
    /\ error = None

NextSimplify == Simplify

SpecSimplify == InitSimplify /\ [][NextSimplify]_vars

(***************************************************************************)
(* Calls on elevation profiles: enhance_track_points_for_rendering at      *)
(* 'high', and _smooth_elevation_data directly.                            *)
(***************************************************************************)
InitSmooth ==
    /\ pc \in {"enhance", "smooth"}
    /\ filename = <<"track", ".", "gpx">>
    /\ content_type = <<"application/gpx+xml">>
    /\ file_size = 1
    /\ include_metadata = FALSE
    /\ quality_level = "high"
    /\ heap \in ElevationProfiles
    /\ track_points = [i \in 1..Len(heap) |-> i]
    /\ enhanced_points = IF pc = "smooth" THEN track_points ELSE <<>>
    /\ parsed = heap
    /\ trace = <<>>
    /\ result = None
    /\ error = None

NextSmooth ==
    \/ EnhanceBegin
    \/ Dedup
    \/ PrecisionFix
    \/ Smooth
    \/ Interpolate

SpecSmooth == InitSmooth /\ [][NextSmooth]_vars

(***************************************************************************)
(* Direct calls of the stages: a stage is called on a track, and its       *)
(* output is handed to the stages that follow it at 'ultra'.               *)
(***************************************************************************)
InitStage ==
    /\ pc \in {"dedup", "precision", "smooth", "interpolate"}
    /\ filename = <<"track", ".", "gpx">>
    /\ content_type = <<"application/gpx+xml">>
    /\ file_size = 1
    /\ include_metadata = FALSE
    /\ quality_level = "ultra"
    /\ heap \in EnhanceTracks \cup DriftTracks
    /\ track_points = [i \in 1..Len(heap) |-> i]
    /\ enhanced_points = track_points
    /\ parsed = heap
    /\ trace = <<>>
    /\ result = None
    /\ error = None

NextStage ==
    \/ Dedup
    \/ PrecisionFix
    \/ Smooth
    \/ Interpolate
    \/ Simplify

SpecStage == InitStage /\ [][NextStage]_vars

(***************************************************************************)
(* Calls on tracks with gaps in their timestamps:                          *)
(* enhance_track_points_for_rendering at 'high', and                       *)
(* _interpolate_missing_timestamps directly.                               *)
(***************************************************************************)
InitInterpolate ==
    /\ pc \in {"enhance", "interpolate"}
    /\ filename = <<"track", ".", "gpx">>
    /\ content_type = <<"application/gpx+xml">>
    /\ file_size = 1
    /\ include_metadata = FALSE
    /\ quality_level = "high"
    /\ heap \in TimeTracks
    /\ track_points = [i \in 1..Len(heap) |-> i]
    /\ enhanced_points = IF pc = "interpolate" THEN track_points ELSE <<>>
    /\ parsed = heap
    /\ trace = <<>>
    /\ result = None
    /\ error = None

NextInterpolate ==
    \/ EnhanceBegin
    \/ Dedup
    \/ PrecisionFix
    \/ Smooth
    \/ Interpolate

SpecInterpolate == InitInterpolate /\ [][NextInterpolate]_vars

(***************************************************************************)
(* The assessor and the statistics on their own: process_gpx_upload from   *)
(* the call of _assess_data_quality on (level 'low', the enhancement has   *)
(* returned its input), and direct calls of calculate_track_statistics.    *)
(***************************************************************************)
Statistics ==
    /\ pc = "statistics"
    /\ result' = Some(calculate_track_statistics(Values(heap, track_points)))
    /\ trace' = Append(trace, TraceEntry("statistics", TRUE, Len(track_points)))
    /\ pc' = "done"
    /\ UNCHANGED <<filename, content_type, file_size, include_metadata,
                   quality_level, heap, track_points, enhanced_points, parsed,
                   error>>

InitAssess ==
    /\ pc \in {"assess", "statistics"}
    /\ filename = <<"track", ".", "gpx">>
    /\ content_type = <<"application/gpx+xml">>
    /\ file_size = 1
    /\ include_metadata = FALSE
    /\ quality_level = "low"
    /\ heap \in AssessTracks
    /\ track_points = [i \in 1..Len(heap) |-> i]
    /\ enhanced_points = track_points
    /\ parsed = heap
    /\ trace = <<>>
    /\ result = None
    /\ error = None

NextAssess ==
    \/ Assemble
    \/ Statistics

SpecAssess == InitAssess /\ [][NextAssess]_vars

(***************************************************************************)
(* Calls of validate_gpx_file alone.                                       *)
(***************************************************************************)
InitValidate ==
    /\ pc = "validate"
    /\ filename \in ValidateFilenames
    /\ content_type \in ValidateContentTypes
    /\ file_size \in SizeSamples
    /\ include_metadata = FALSE
    /\ quality_level = "low"
    /\ heap = <<>>
    /\ track_points = <<>>
    /\ enhanced_points = <<>>
    /\ parsed = <<>>
    /\ trace = <<>>
    /\ result = None
    /\ error = None

NextValidate == Validate

SpecValidate == InitValidate /\ [][NextValidate]_vars

(***************************************************************************)
(* Properties.                                                             *)
(***************************************************************************)
EnhanceStages == {"dedup", "precision", "smooth", "interpolate", "simplify"}

StageNames(entries) == [i \in 1..Len(entries) |-> entries[i].stage]

IsEnhanceEntry(entry) == entry.stage \in EnhanceStages

\* the enhancement stages that have run so far, in the order they ran
EnhanceStagesRun == StageNames(SelectSeq(trace, IsEnhanceEntry))

HasEntry(stage, ok) ==
    \E i \in 1..Len(trace) : trace[i].stage = stage /\ trace[i].ok = ok

\* enhance_track_points_for_rendering has returned
Returned == pc \in {"assess", "metadata", "done"}

IsPrefix(s, t) == Len(s) <= Len(t) /\ s = SubSeq(t, 1, Len(s))

\* the stages each level is to run, as the levels are documented
DocumentedStages(level) ==
    CASE level = "low" -> <<>>
      [] level = "medium" -> <<"dedup", "precision">>
      [] level = "high" -> <<"dedup", "precision", "smooth", "interpolate">>
      [] level = "ultra" ->
           <<"dedup", "precision", "smooth", "interpolate", "simplify">>

StageOperator(stage, h, l) ==
    CASE stage = "dedup" -> remove_duplicate_points(h, l)
      [] stage = "precision" -> fix_coordinate_precision(h, l)
      [] stage = "smooth" -> smooth_elevation_data(h, l)
      [] stage = "interpolate" -> interpolate_missing_timestamps(h, l)
      [] stage = "simplify" -> apply_douglas_peucker_simplification(h, l)

RECURSIVE Compose(_, _, _)
Compose(stages, h, l) ==
    IF stages = <<>> THEN [heap |-> h, list |-> l]
    ELSE LET r == StageOperator(Head(stages), h, l)
         IN  Compose(Tail(stages), r.heap, r.list)

\* the points the documented stages of a level make of the points pts
Composition(level, pts) ==
    LET r == Compose(DocumentedStages(level), pts, [i \in 1..Len(pts) |-> i])
    IN  Values(r.heap, r.list)

\* C1: for a track of at least two points exactly the stages of the level run,
\* in the order dedup, precision fix, smoothing, interpolation,
\* simplification, none twice, and the points returned are the composition
\* of these stages applied to the input ('low': the input itself).
C1_StagesInLevelOrder ==
    Len(parsed) >= 2 =>
        /\ IsPrefix(EnhanceStagesRun, DocumentedStages(quality_level))
        /\ Returned =>
              /\ EnhanceStagesRun = DocumentedStages(quality_level)
              /\ Values(heap, enhanced_points) = Composition(quality_level, parsed)

C1_Witness ==
    /\ Returned
    /\ quality_level = "ultra"
    /\ Len(parsed) >= 2
    /\ Len(EnhanceStagesRun) = 5
    /\ Len(enhanced_points) < Len(parsed)

\* C2: no stage returns more points than it was given, and for one input
\* the count at 'ultra' <= the count at 'high' <= the count at 'medium'
\* <= the input count.
C2_CountsNeverGrow ==
    /\ \A i \in 1..Len(trace) :
          IsEnhanceEntry(trace[i]) =>
              trace[i].points <= IF i > 1 /\ IsEnhanceEntry(trace[i - 1])
                                 THEN trace[i - 1].points
                                 ELSE Len(parsed)
    /\ Returned =>
          /\ Len(enhanced_points) = Len(Composition(quality_level, parsed))
          /\ Len(Composition("ultra", parsed)) <= Len(Composition("high", parsed))
          /\ Len(Composition("high", parsed)) <= Len(Composition("medium", parsed))
          /\ Len(Composition("medium", parsed)) <= Len(parsed)

C2_Witness ==
    /\ Returned
    /\ quality_level = "ultra"
    /\ Len(enhanced_points) < Len(Composition("high", parsed))
    /\ Len(Composition("medium", parsed)) < Len(parsed)

IsRoundedPoint(point) ==
    /\ point.lat = RoundCoord(point.lat)
    /\ point.lon = RoundCoord(point.lon)
    /\ point.elevation # None =>
          point.elevation[1] = RRound(point.elevation[1], ElevationDigits)

\* C3: at 'medium' every point returned for a non-empty track, a
\* single-point track included, has lat and lon rounded to 7 decimals and
\* its elevation, when it has one, to 2.
C3_MediumOutputRounded ==
    (Returned /\ quality_level = "medium" /\ Len(parsed) >= 1) =>
        \A i \in 1..Len(enhanced_points) : IsRoundedPoint(heap[enhanced_points[i]])

ExtensionAccepted == validate_file_extension(filename, GPX_EXTENSIONS)

ContentTypeAccepted ==
    validate_content_type(content_type,
                          get_expected_content_types_for_extension(<<"gpx">>))

\* C4: a file with accepted extension and content type and zero bytes fails
\* with 'Empty file uploaded'.
C4_EmptyFileGetsEmptyError ==
    (pc # "validate" /\ ExtensionAccepted /\ ContentTypeAccepted /\ file_size = 0) =>
        /\ pc = "failed"
        /\ error = Some([message |-> EmptyError, filename |-> filename])

\* C5: validation surfaces one error, the first in the order extension,
\* content type, size, emptiness: a rejected extension gives the extension
\* error whatever the content type and size, an accepted extension with a
\* rejected content type gives the content-type error whatever the size,
\* and a file passing all four checks raises nothing.
C5_FirstFailureSurfaced ==
    pc # "validate" =>
        /\ ~ExtensionAccepted =>
              /\ pc = "failed"
              /\ error = Some([message |-> ExtensionError, filename |-> filename])
        /\ (ExtensionAccepted /\ ~ContentTypeAccepted) =>
              /\ pc = "failed"
              /\ error = Some([message |-> ContentTypeError, filename |-> filename])
        /\ (ExtensionAccepted /\ ContentTypeAccepted
               /\ file_size <= MAX_FILE_SIZE_BYTES /\ file_size > 0) =>
              /\ trace[1] = TraceEntry("validate", TRUE, 0)
              /\ (pc = "parse" => error = None)
        /\ Len(SelectSeq(trace, LAMBDA e : e.stage = "validate")) = 1

C5_Witness ==
    /\ pc = "failed"
    /\ ExtensionAccepted
    /\ ~ContentTypeAccepted
    /\ file_size > MAX_FILE_SIZE_BYTES
    /\ error[1].message = ContentTypeError

\* C6: when validation fails nothing after it is started and no result is
\* produced; when parsing fails nothing after it is started and no point
\* list is handed on; either way the caller gets one FileUploadError
\* carrying the filename.
C6_FailureAborts ==
    /\ (pc # "validate" /\ validate_gpx_file(filename, content_type, file_size) # None) =>
          /\ pc = "failed"
          /\ StageNames(trace) = <<"validate">>
    /\ HasEntry("parse", FALSE) =>
          /\ pc = "failed"
          /\ StageNames(trace) = <<"validate", "parse">>
    /\ pc = "failed" =>
          /\ result = None
          /\ track_points = <<>>
          /\ enhanced_points = <<>>
          /\ Len(error) = 1
          /\ error[1].filename = filename
    /\ pc # "failed" => error = None

C6_Witness ==
    /\ pc = "failed"
    /\ StageNames(trace) = <<"validate", "parse">>
    /\ error[1].filename = filename
    /\ filename # <<>>

\* the result dict as assembled from the present points, without metadata
AssembledResult ==
    [success |-> TRUE,
     track_points |-> enhanced_points,
     points_count |-> Len(enhanced_points),
     original_points_count |-> Len(parsed),
     quality_level |-> quality_level,
     data_quality |-> assess_data_quality(parsed),
     metadata |-> "absent"]

\* C7: with include_metadata a failed metadata extraction leaves the request
\* successful, with the result of the run without metadata and metadata =
\* None; without include_metadata the extraction is never attempted and the
\* result has no metadata field.
C7_MetadataBestEffort ==
    /\ (HasEntry("metadata", FALSE) \/ HasEntry("metadata", TRUE)) =>
          /\ include_metadata
          /\ pc = "done"
          /\ error = None
          /\ result # None
          /\ result[1].success
          /\ [result[1] EXCEPT !.metadata = "absent"] = AssembledResult
          /\ result[1].metadata =
                IF HasEntry("metadata", FALSE) THEN "none" ELSE "extracted"
    /\ pc = "done" =>
          IF include_metadata
          THEN HasEntry("metadata", FALSE) \/ HasEntry("metadata", TRUE)
          ELSE result[1] = AssembledResult

C7_Witness ==
    /\ pc = "done"
    /\ include_metadata
    /\ HasEntry("metadata", FALSE)
    /\ result[1].metadata = "none"
    /\ result[1].points_count >= 2

\* C8: the data_quality of the result is the assessment of the points as
\* the parser produced them, whatever the level; original_points_count is
\* the parsed count and points_count the length of the returned list.
C8_QualityOfParsedPoints ==
    pc \in {"metadata", "done"} =>
        /\ result[1].data_quality = assess_data_quality(parsed)
        /\ result[1].original_points_count = Len(parsed)
        /\ result[1].points_count = Len(result[1].track_points)

C8_Witness ==
    /\ pc = "done"
    /\ quality_level = "high"
    /\ result[1].data_quality # assess_data_quality(Values(heap, enhanced_points))
    /\ result[1].points_count < result[1].original_points_count

\* s is t with some elements left out
IsSubsequence(s, t) ==
    \E kept \in SUBSET (1..Len(t)) :
        s = [i \in 1..Len(Ascending(kept)) |-> t[Ascending(kept)[i]]]

\* C9: the output of the simplification is a subsequence of its input, not
\* longer than it, beginning with the first and ending with the last input
\* point.
C9_SimplifiedIsSubsequence ==
    pc = "assess" =>
        /\ IsSubsequence(enhanced_points, track_points)
        /\ Len(enhanced_points) <= Len(track_points)
        /\ track_points # <<>> =>
              /\ enhanced_points # <<>>
              /\ enhanced_points[1] = track_points[1]
              /\ enhanced_points[Len(enhanced_points)] = track_points[Len(track_points)]

C9_Witness ==
    /\ pc = "assess"
    /\ Len(enhanced_points) >= 3
    /\ Len(enhanced_points) < Len(track_points)

SameCoordinates(p, q) == p.lat = q.lat /\ p.lon = q.lon

\* C10: every point the simplification removes lies within epsilon of the
\* line through the two retained points that bracket it in the output, and
\* within epsilon of that point when the two have the same coordinates.
C10_RemovedWithinEpsilon ==
    pc = "assess" =>
        \A i \in 1..Len(track_points) :
            (\A k \in 1..Len(enhanced_points) : enhanced_points[k] # track_points[i]) =>
                LET retained == {enhanced_points[k] : k \in 1..Len(enhanced_points)}
                    before == heap[SetMax({r \in retained : r < track_points[i]})]
                    after == heap[SetMin({r \in retained : r > track_points[i]})]
                    point == heap[track_points[i]]
                IN  IF SameCoordinates(before, after)
                    THEN (point.lat - before.lat) * (point.lat - before.lat)
                         + (point.lon - before.lon) * (point.lon - before.lon)
                         <= Epsilon * Epsilon
                    ELSE ~DistanceExceeds(Numerator(point, before, after),
                                          DenominatorSq(before, after), Epsilon)

(***************************************************************************)
(* Elevation smoothing.                                                    *)
(***************************************************************************)
\* the parsed track is the five-point profile 10, 10, 100, 10, 10
SpikeProfile ==
    /\ Len(parsed) = 5
    /\ \A i \in 1..5 :
           parsed[i].elevation = Some(<<IF i = 3 THEN 100 ELSE 10, 1>>)

\* the enhancement was called at 'high' and has returned
EnhancedAtHigh ==
    /\ pc = "assess"
    /\ quality_level = "high"
    /\ EnhanceStagesRun = <<"dedup", "precision", "smooth", "interpolate">>

\* the mean of the elevations the parsed track carries in the window of
\* size window_size centred at position i
WindowMean(i, window_size) ==
    LET half == window_size \div 2
        window == {k \in 1..Len(parsed) :
                      /\ i - half <= k /\ k <= i + half
                      /\ parsed[k].elevation # None}
        values == [k \in 1..Cardinality(window) |->
                      parsed[Ascending(window)[k]].elevation[1]]
    IN  RDivInt(RSum(values), Len(values))

\* C11 as claimed: the spike of the profile 10, 10, 100, 10, 10 enhanced at
\* 'high' comes out strictly below 100, with the value of the window formula
\* min(5, n_elev // 10 + 1).
C11_SpikeReduced ==
    (SpikeProfile /\ EnhancedAtHigh) =>
        /\ RLess(heap[enhanced_points[3]].elevation[1], Rat(100))
        /\ heap[enhanced_points[3]].elevation[1]
               = WindowMean(3, Min2(5, 5 \div 10 + 1))

\* C11 amended: the spike of the profile 10, 10, 100, 10, 10 enhanced at
\* 'high' comes out as 100, the value of the window formula, whose window
\* is 1 for five elevations: the point is averaged with itself only.
C11_SpikeKept ==
    (SpikeProfile /\ EnhancedAtHigh) =>
        /\ Len(enhanced_points) = 5
        /\ heap[enhanced_points[3]].elevation = Some(<<100, 1>>)
        /\ heap[enhanced_points[3]].elevation[1]
               = WindowMean(3, Min2(5, 5 \div 10 + 1))

C11_Witness == SpikeProfile /\ EnhancedAtHigh

(***************************************************************************)
(* The stages one by one.                                                  *)
(***************************************************************************)
\* the stage was called on the track parsed and has returned; nothing else
\* has run
DirectCall(stage) == Len(trace) = 1 /\ trace[1].stage = stage

\* C12: the output of the dedup is not longer than its input, and of every
\* two consecutive output points the latitudes or the longitudes differ by
\* more than the tolerance 1e-6.
C12_DedupMonotone ==
    DirectCall("dedup") =>
        /\ Len(enhanced_points) <= Len(parsed)
        /\ \A k \in 1..(Len(enhanced_points) - 1) :
               LET a == heap[enhanced_points[k]]
                   b == heap[enhanced_points[k + 1]]
               IN  Abs(a.lat - b.lat) > Tolerance \/ Abs(a.lon - b.lon) > Tolerance

C12_Witness ==
    /\ DirectCall("dedup")
    /\ Len(enhanced_points) >= 2
    /\ Len(enhanced_points) < Len(parsed)

\* C13: the precision fix applied to its own output gives that output
\* again; its output has the length and the order of its input (each output
\* point lies within half a grid step and half a cent of elevation of the
\* input point at its index), a point without elevation stays without, and
\* every time field is the input's.
C13_PrecisionFixIdempotent ==
    DirectCall("precision") =>
        LET once == Values(heap, enhanced_points)
            again == fix_coordinate_precision(heap, enhanced_points)
            twice == Values(again.heap, again.list)
        IN  /\ twice = once
            /\ Len(once) = Len(parsed)
            /\ \A i \in 1..Len(once) :
                   /\ 2 * Abs(once[i].lat - parsed[i].lat) <= CoordGrid
                   /\ 2 * Abs(once[i].lon - parsed[i].lon) <= CoordGrid
                   /\ once[i].time = parsed[i].time
                   /\ (parsed[i].elevation = None) = (once[i].elevation = None)
                   /\ parsed[i].elevation # None =>
                          LET e == parsed[i].elevation[1]
                              r == once[i].elevation[1]
                              d == Abs(e[1] * r[2] - r[1] * e[2])
                          IN  2 * ElevationDigits * d <= e[2] * r[2]

\* a track holding an unrounded coordinate, an unrounded elevation and a
\* point without elevation has been fixed
C13_Witness ==
    /\ DirectCall("precision")
    /\ \E i \in 1..Len(parsed) :
           heap[enhanced_points[i]].lat # parsed[i].lat
    /\ \E i \in 1..Len(parsed) :
           /\ parsed[i].elevation # None
           /\ heap[enhanced_points[i]].elevation # parsed[i].elevation
    /\ \E i \in 1..Len(parsed) : parsed[i].elevation = None

\* C14: the smoothing returns the points it was given, as many and in the
\* same order, with latitude, longitude and time as they were, and without
\* elevation where there was none.
C14_SmoothingFrame ==
    DirectCall("smooth") =>
        /\ enhanced_points = track_points
        /\ Len(enhanced_points) = Len(parsed)
        /\ \A i \in 1..Len(enhanced_points) :
               LET point == heap[enhanced_points[i]]
               IN  /\ point.lat = parsed[i].lat
                   /\ point.lon = parsed[i].lon
                   /\ point.time = parsed[i].time
                   /\ (parsed[i].elevation = None) = (point.elevation = None)

\* a track with a point without elevation has been smoothed, and an
\* elevation has changed
C14_Witness ==
    /\ DirectCall("smooth")
    /\ \E i \in 1..Len(parsed) : parsed[i].elevation = None
    /\ \E i \in 1..Len(parsed) :
           /\ parsed[i].elevation # None
           /\ heap[enhanced_points[i]].elevation # parsed[i].elevation

(***************************************************************************)
(* Simplification of a line with one outlier.                              *)
(***************************************************************************)
\* the track parsed runs along the meridian lon = 0 with increasing
\* latitude, except for its point o, which is farther than epsilon from it
IsOutlierAt(o) ==
    /\ 1 < o /\ o < Len(parsed)
    /\ parsed[o].lon > Epsilon
    /\ \A i \in 1..Len(parsed) : i # o => parsed[i].lon = 0
    /\ \A i \in 1..(Len(parsed) - 1) : parsed[i].lat < parsed[i + 1].lat

\* point i of the track parsed is farther than epsilon from the line through
\* its points a and b
FarFrom(i, a, b) ==
    DistanceExceeds(Numerator(parsed[i], parsed[a], parsed[b]),
                    DenominatorSq(parsed[a], parsed[b]), Epsilon)

Assessed == pc = "done" /\ (trace[1].stage = "assess" \/ parsed # <<>>)

Report ==
    IF trace[1].stage = "assess" THEN result[1].data_quality
    ELSE result[1].data_quality[1]

\* (max_lat - min_lat) + (max_lon - min_lon), in units
Span(points) ==
    LET lats == {points[i].lat : i \in 1..Len(points)}
        lons == {points[i].lon : i \in 1..Len(points)}
    IN  (SetMax(lats) - SetMin(lats)) + (SetMax(lons) - SetMin(lons))

\* point_count / max(span, 0.001)
FlooredDensity(points) ==
    Norm(Len(points) * UnitsPerDegree, Max2(Span(points), MinSpan))

DensityRating(density) ==
    IF RLess(Rat(50), density) THEN "high"
    ELSE IF RLess(Rat(10), density) THEN "medium" ELSE "low"

\* C16 as claimed: for every non-empty sequence, a single point included,
\* the density reported (to two decimals, and rated) is
\* point_count / max(span, 0.001).
C16_DensityFloored ==
    (Assessed /\ parsed # <<>>) =>
        /\ Report.points_per_degree = RRound(FlooredDensity(parsed), 100)
        /\ Report.density = DensityRating(FlooredDensity(parsed))

\* C16 amended: for every sequence of two or more points the density
\* reported is point_count / max(span, 0.001); for a single point it is 0.
C16_DensityOfTwoOrMore ==
    (Assessed /\ parsed # <<>>) =>
        LET density == IF Len(parsed) >= 2 THEN FlooredDensity(parsed) ELSE Zero
        IN  /\ Report.points_per_degree = RRound(density, 100)
            /\ Report.density = DensityRating(density)

\* a report on three points that span more than 0.001 degree, of a density
\* rated low
C16_Witness ==
    /\ Assessed
    /\ Len(parsed) = 3
    /\ Span(parsed) > MinSpan
    /\ Report.density = "low"

\* the density the assessor computes: 0 for a single point
Density(points) ==
    IF Len(points) >= 2 THEN FlooredDensity(points) ELSE Zero

\* the average over the sampled points of the mean number of decimals of
\* latitude and longitude
AverageDecimals(points) ==
    LET sampled == Min2(MaxSample, Len(points))
        halves == [i \in 1..sampled |->
                      Norm(Decimals(points[i].lat) + Decimals(points[i].lon), 2)]
    IN  RDivInt(RSum(halves), sampled)

\* C17: for every non-empty input the score is min(100, density * 10 +
\* avg_decimals * 5) to two decimals and lies in [0, 100]; it is 100
\* whenever density >= 10, hence whenever the density is rated medium or
\* high; high is density > 50, medium is 10 < density <= 50, low otherwise.
C17_ScoreFormula ==
    (Assessed /\ parsed # <<>>) =>
        LET density == Density(parsed)
            raw == RAdd(RScale(density, 10), RScale(AverageDecimals(parsed), 5))
            score == Report.quality_score
        IN  /\ score = RRound(IF RLess(Rat(100), raw) THEN Rat(100) ELSE raw, 100)
            /\ ~RLess(score, Zero) /\ ~RLess(Rat(100), score)
            /\ ~RLess(density, Rat(10)) => score = Rat(100)
            /\ Report.density \in {"medium", "high"} => score = Rat(100)
            /\ (Report.density = "high") = RLess(Rat(50), density)
            /\ (Report.density = "medium")
                   = (RLess(Rat(10), density) /\ ~RLess(Rat(50), density))
            /\ (Report.density = "low") = ~RLess(Rat(10), density)

\* a report with a score below 100 on a track of two or more points
C17_Witness ==
    /\ Assessed
    /\ Len(parsed) >= 2
    /\ Report.density = "low"
    /\ RLess(Report.quality_score, Rat(100))
    /\ RLess(Zero, Report.quality_score)

\* C18: for the empty sequence the assessor returns a report with the
\* fields of every other report, quality_score, points_per_degree and
\* avg_decimal_places 0 and both ratings 'unknown'.
C18_EmptyReportComplete ==
    (Assessed /\ parsed = <<>>) =>
        /\ DOMAIN Report = {"quality_score", "density", "precision",
                            "points_per_degree", "avg_decimal_places"}
        /\ Report.quality_score = Zero
        /\ Report.points_per_degree = Zero
        /\ Report.avg_decimal_places = Zero
        /\ Report.density = "unknown"
        /\ Report.precision = "unknown"

(***************************************************************************)
(* The statistics.                                                         *)
(***************************************************************************)
\* calculate_track_statistics has returned its dict on the track parsed
StatisticsReturned == pc = "done" /\ trace[1].stage = "statistics"

\* C19: total_points is the length of the sequence; distance_estimate is
\* None exactly when there are fewer than 2 points; elevation_range is None
\* exactly when no point has an elevation, which is when has_elevation is
\* false, and otherwise holds the least and the greatest of the elevations
\* present and their difference; for the empty sequence total_points is 0,
\* both flags are false and both optional fields None.
C19_StatisticsFields ==
    StatisticsReturned =>
        LET stats == result[1]
            elevated == {i \in 1..Len(parsed) : parsed[i].elevation # None}
        IN  /\ stats.total_points = Len(parsed)
            /\ (stats.distance_estimate = None) = (Len(parsed) < 2)
            /\ stats.has_elevation = (elevated # {})
            /\ (stats.elevation_range = None) = (elevated = {})
            /\ elevated # {} =>
                   LET range == stats.elevation_range[1]
                   IN  /\ \E i \in elevated : parsed[i].elevation[1] = range.min
                       /\ \E i \in elevated : parsed[i].elevation[1] = range.max
                       /\ \A i \in elevated :
                              /\ ~RLess(parsed[i].elevation[1], range.min)
                              /\ ~RLess(range.max, parsed[i].elevation[1])
                       /\ ~RLess(range.max, range.min)
                       /\ RAdd(range.min, range.difference) = range.max
            /\ parsed = <<>> =>
                   /\ stats.total_points = 0
                   /\ ~stats.has_elevation /\ ~stats.has_time
                   /\ stats.elevation_range = None
                   /\ stats.distance_estimate = None

\* the statistics of a track of which one point has no elevation and two
\* have different ones
C19_Witness ==
    /\ StatisticsReturned
    /\ \E i \in 1..Len(parsed) : parsed[i].elevation = None
    /\ result[1].elevation_range # None
    /\ RLess(result[1].elevation_range[1].min, result[1].elevation_range[1].max)
    /\ result[1].distance_estimate # None

(***************************************************************************)
(* The validation of the upload.                                           *)
(***************************************************************************)
\* validate_gpx_file has returned or raised
Validated == pc # "validate"

\* what validate_gpx_file raised, if anything, is not the extension error
\* nor the content-type error
PassedTypeChecks(raised) ==
    raised = None \/ raised[1] \notin {ExtensionError, ContentTypeError}

\* the text after the last "." of the name, lower-cased, is "gpx"
ExtensionIsGpx(name) ==
    /\ Len(name) >= 2
    /\ name[Len(name) - 1] = "."
    /\ LowerWord(name[Len(name)]) = "gpx"

AcceptedBaseTypes ==
    {"application/gpx+xml", "text/xml", "application/xml", "text/plain",
     "application/octet-stream"}

\* the tokens of a content type before its first ";"
BaseTokens(ctype) ==
    {i \in 1..Len(ctype) : \A j \in 1..i : ctype[j] # ";"}

\* the text before the first ";" is one accepted type, in any case, between
\* any number of blanks
BaseTypeIsAccepted(ctype) ==
    \E i \in BaseTokens(ctype) :
        /\ LowerWord(ctype[i]) \in AcceptedBaseTypes
        /\ \A j \in BaseTokens(ctype) \ {i} : ctype[j] = " "

\* C20: validate_gpx_file passes the extension and the content-type check
\* exactly when the text after the last "." of the filename is "gpx" in any
\* case and the base type of the content type is one of the five accepted
\* types; a filename without ".", a missing filename and a missing or empty
\* content type are rejected, and what follows the first ";" of the content
\* type does not change the outcome.
C20_TypeChecks ==
    Validated =>
        LET raised == IF error = None THEN None ELSE Some(error[1].message)
        IN  /\ PassedTypeChecks(raised)
                   = (ExtensionIsGpx(filename) /\ BaseTypeIsAccepted(content_type))
            /\ ~Contains(filename, ".") => raised = Some(ExtensionError)
            /\ (ExtensionIsGpx(filename) /\ content_type = <<>>)
                   => raised = Some(ContentTypeError)
            /\ \A other \in ValidateContentTypes :
                   BeforeFirstSemicolon(other) = BeforeFirstSemicolon(content_type)
                       => validate_gpx_file(filename, other, file_size) = raised

\* a GPX filename in upper case with a content type in upper case, blanks
\* and a parameter has passed both checks
C20_Witness ==
    /\ Validated
    /\ filename = <<"TRACK", ".", "GPX">>
    /\ content_type = <<" ", "TEXT/XML", ";", " ", "charset=utf-8">>
    /\ error = None

\* C21: for a file with an accepted extension, an accepted content type and
\* content that is not empty, validate_gpx_file raises the too-large error
\* exactly when the length of the content exceeds MAX_FILE_SIZE_BYTES, and
\* raises nothing otherwise: the maximum is accepted, the maximum + 1 is not.
C21_TooLargeAboveMaximum ==
    (/\ Validated
     /\ ExtensionIsGpx(filename)
     /\ BaseTypeIsAccepted(content_type)
     /\ file_size > 0) =>
        /\ (error # None) = (file_size > MAX_FILE_SIZE_BYTES)
        /\ error # None => error[1].message = TooLargeError
        /\ file_size = MAX_FILE_SIZE_BYTES => pc = "parse"
        /\ file_size = MAX_FILE_SIZE_BYTES + 1 => pc = "failed"

\* a file of exactly the maximum size has been accepted
C21_Witness ==
    /\ Validated
    /\ ExtensionIsGpx(filename)
    /\ BaseTypeIsAccepted(content_type)
    /\ file_size = MAX_FILE_SIZE_BYTES
    /\ error = None

\* the number of points of the parsed track that carry an elevation
ElevationCount ==
    Cardinality({i \in 1..Len(parsed) : parsed[i].elevation # None})

\* C22: after the elevation smoothing every point that has an elevation
\* carries the mean of the elevations the input track carries in the
\* window of size min(5, n_elev // 10 + 1) centred at the point; values
\* already smoothed at earlier points do not enter.
C22_MeanOfInputValues ==
    DirectCall("smooth") =>
        /\ Len(enhanced_points) = Len(parsed)
        /\ \A i \in 1..Len(parsed) :
               parsed[i].elevation # None =>
                   heap[enhanced_points[i]].elevation
                       = Some(WindowMean(i, Min2(5, ElevationCount \div 10 + 1)))

\* C23: enhanced at 'medium', 'high' or 'ultra', a track of two or more
\* points comes out without a segment of length zero: no two consecutive
\* output points have the same latitude and the same longitude.
C23_NoZeroLengthSegment ==
    (/\ pc = "assess"
     /\ quality_level \in {"medium", "high", "ultra"}
     /\ Len(parsed) >= 2) =>
        \A i \in 1..(Len(enhanced_points) - 1) :
            \/ heap[enhanced_points[i]].lat # heap[enhanced_points[i + 1]].lat
            \/ heap[enhanced_points[i]].lon # heap[enhanced_points[i + 1]].lon

\* the points differ by more than the tolerance in latitude or in longitude
Differs(a, b) ==
    Abs(a.lat - b.lat) > Tolerance \/ Abs(a.lon - b.lon) > Tolerance

\* the input positions that the dedup kept
KeptPositions == {enhanced_points[k] : k \in 1..Len(enhanced_points)}

\* the last input position before i that the dedup kept
LastKeptBefore(i) == SetMax({r \in KeptPositions : r < i})

\* C24: the dedup keeps the first point, and keeps a later point exactly
\* when its latitude or its longitude differs by more than 1e-6 from the
\* last point kept before it (not from the input point before it); so every
\* dropped point is within 1e-6 in both coordinates of the kept point that
\* precedes it, and the output is the kept points in input order.
C24_ComparedWithLastKept ==
    (DirectCall("dedup") /\ Len(parsed) >= 1) =>
        /\ Len(enhanced_points) >= 1
        /\ enhanced_points[1] = 1
        /\ \A k \in 1..(Len(enhanced_points) - 1) :
               enhanced_points[k] < enhanced_points[k + 1]
        /\ \A r \in KeptPositions : r \in 1..Len(parsed)
        /\ \A i \in 2..Len(parsed) :
               /\ (i \in KeptPositions)
                      = Differs(parsed[i], parsed[LastKeptBefore(i)])
               /\ i \notin KeptPositions =>
                      /\ Abs(parsed[i].lat - parsed[LastKeptBefore(i)].lat)
                             <= Tolerance
                      /\ Abs(parsed[i].lon - parsed[LastKeptBefore(i)].lon)
                             <= Tolerance
        /\ \A i \in 1..Len(parsed) : heap[i] = parsed[i]

\* a drift was sampled: no point of the input differs from the input point
\* before it by more than the tolerance, and yet a second point was kept
C24_Witness ==
    /\ DirectCall("dedup")
    /\ Len(parsed) >= 3
    /\ \A i \in 2..Len(parsed) : ~Differs(parsed[i], parsed[i - 1])
    /\ Len(enhanced_points) >= 2

(***************************************************************************)
(* The interpolation of timestamps.                                        *)
(***************************************************************************)
\* the positions of the parsed track that carry a time
TimedPositions == {i \in 1..Len(parsed) : parsed[i].time # None}

\* a and b carry a time and no position between them does, and at least
\* one position lies between them
IsGap(a, b) ==
    /\ a \in TimedPositions
    /\ b \in TimedPositions
    /\ b - a > 1
    /\ \A k \in (a + 1)..(b - 1) : k \notin TimedPositions

\* both boundary times of the gap parse
ParsableGap(a, b) ==
    IsGap(a, b) /\ Parsable(parsed[a].time) /\ Parsable(parsed[b].time)

\* the time the output carries at position i, in microseconds
FilledTime(i) == heap[enhanced_points[i]].time[1]

\* C25: the interpolation fills every run of n points without time between
\* two timestamped points with start s and end e; the j-th point of the run
\* receives s + (e - s) * j / (n + 1), a datetime, so the value nearest to
\* the quotient in microseconds (within half a microsecond of it, a tie
\* going to the even one).  When s <= e the filled times do not decrease
\* with the index and lie between s and e.
C25_LinearFill ==
    DirectCall("interpolate") =>
        \A a, b \in 1..Len(parsed) :
            ParsableGap(a, b) =>
                LET s == parsed[a].time[1]
                    e == parsed[b].time[1]
                    n == b - a - 1
                IN  /\ \A j \in 1..n :
                           /\ heap[enhanced_points[a + j]].time # None
                           /\ Parsable(heap[enhanced_points[a + j]].time)
                           /\ 2 * Abs((FilledTime(a + j) - s) * (n + 1) - (e - s) * j)
                                  <= n + 1
                           /\ FilledTime(a + j)
                                  = s + DivideNearest((e - s) * j, n + 1)
                    /\ s <= e =>
                           /\ \A j \in 1..n :
                                  s <= FilledTime(a + j) /\ FilledTime(a + j) <= e
                           /\ \A j \in 1..(n - 1) :
                                  FilledTime(a + j) <= FilledTime(a + j + 1)

\* a run of three points between the instants 0 and 7 has been filled, its
\* middle point with the tie 3.5 rounded to 4
C25_Witness ==
    /\ DirectCall("interpolate")
    /\ Len(parsed) = 5
    /\ ParsableGap(1, 5)
    /\ parsed[1].time = Some(0)
    /\ parsed[5].time = Some(7)
    /\ heap[enhanced_points[3]].time = Some(4)

\* C26: the interpolation never changes the number of points nor a time
\* that was present; it leaves without time every point before the first
\* and after the last timestamped point; a gap with a boundary time that
\* does not parse is left entirely without time while every gap with
\* parsable boundaries is filled; with fewer than two timestamped points
\* nothing is changed.
C26_InterpolationFrame ==
    DirectCall("interpolate") =>
        /\ enhanced_points = track_points
        /\ Len(heap) = Len(parsed)
        /\ \A i \in 1..Len(parsed) :
               /\ heap[i].lat = parsed[i].lat
               /\ heap[i].lon = parsed[i].lon
               /\ heap[i].elevation = parsed[i].elevation
               /\ i \in TimedPositions => heap[i].time = parsed[i].time
               /\ (\A k \in TimedPositions : i < k) => heap[i].time = parsed[i].time
               /\ (\A k \in TimedPositions : k < i) => heap[i].time = parsed[i].time
        /\ \A a, b \in 1..Len(parsed) :
               IsGap(a, b) =>
                   \A k \in (a + 1)..(b - 1) :
                       IF ParsableGap(a, b)
                       THEN heap[k].time # None
                       ELSE heap[k].time = None
        /\ Cardinality(TimedPositions) < 2 => heap = parsed

\* the first gap starts at a time that does not parse and was left as it
\* was, the second gap was filled
C26_Witness ==
    /\ DirectCall("interpolate")
    /\ Len(parsed) = 5
    /\ parsed[1].time = Unparsable
    /\ IsGap(1, 3)
    /\ ParsableGap(3, 5)
    /\ heap[2].time = None
    /\ heap[4].time # None

(***************************************************************************)
(* The recursion of the simplification.                                    *)
(***************************************************************************)
\* the distance of point i from the line through the ends of the span
\* lo..hi of the parsed track, times the length of that line; 0 when the
\* ends coincide
SpanNumerator(lo, hi, i) ==
    IF DenominatorSq(parsed[lo], parsed[hi]) > 0
    THEN Numerator(parsed[i], parsed[lo], parsed[hi])
    ELSE 0

\* the greatest distance of an interior point of the span lo..hi
SpanMaximum(lo, hi) ==
    SetMax({SpanNumerator(lo, hi, i) : i \in (lo + 1)..(hi - 1)})

\* the first interior index of the span lo..hi that attains the maximum
SplitIndex(lo, hi) ==
    SetMin({i \in (lo + 1)..(hi - 1) :
               SpanNumerator(lo, hi, i) = SpanMaximum(lo, hi)})

\* the maximum of the span lo..hi exceeds epsilon
SpanSplits(lo, hi) ==
    DistanceExceeds(SpanMaximum(lo, hi),
                    DenominatorSq(parsed[lo], parsed[hi]), Epsilon)

\* the positions the specified recursion retains of the span lo..hi
RECURSIVE Retained(_, _)
Retained(lo, hi) ==
    IF hi - lo < 2 THEN [k \in 1..(hi - lo + 1) |-> lo + k - 1]
    ELSE IF SpanSplits(lo, hi)
         THEN Retained(lo, SplitIndex(lo, hi))
              \o Tail(Retained(SplitIndex(lo, hi), hi))
         ELSE <<lo, hi>>

\* C27: the simplification follows the recursion with the lowest-index
\* tie-break: in a span of three or more points the split point is the
\* first interior index that attains the maximum distance; when the maximum
\* exceeds epsilon the split point is retained and appears exactly once in
\* the result, otherwise the span collapses to its first and last point.
C27_FirstMaximumSplits ==
    (DirectCall("simplify") /\ Len(parsed) >= 3) =>
        LET n == Len(parsed)
            split == SplitIndex(1, n)
        IN  /\ enhanced_points = Retained(1, n)
            /\ SpanSplits(1, n) =>
                   Cardinality({k \in 1..Len(enhanced_points) :
                                   enhanced_points[k] = split}) = 1
            /\ ~SpanSplits(1, n) => enhanced_points = <<1, n>>

\* two interior points of a track of four are equally far from the line
\* through its ends, farther than epsilon; the first of them was retained
\* and the second one was not
C27_Witness ==
    /\ DirectCall("simplify")
    /\ Len(parsed) = 4
    /\ SpanNumerator(1, 4, 2) = SpanNumerator(1, 4, 3)
    /\ SpanSplits(1, 4)
    /\ enhanced_points = <<1, 2, 4>>

\* the values of epsilon the recursion is examined with
EpsilonSamples == {0, Epsilon}

\* C28: the recursion terminates: in every span of three or more
\* consecutive points and for every epsilon >= 0, a scan whose maximum
\* exceeds epsilon ends with a split index strictly between the first and
\* the last index of the span, so both sub-spans are strictly shorter than
\* the span.
C28_SplitStrictlyInside ==
    \A lo, hi \in 1..Len(track_points) : \A epsilon \in EpsilonSamples :
        hi - lo >= 2 =>
            LET points == SubSeq(track_points, lo, hi)
                m == ScanMax(heap, points, 2, 0, 1)
                max_index == m[2]
            IN  DistanceExceeds(m[1],
                    DenominatorSq(heap[points[1]], heap[points[Len(points)]]),
                    epsilon) =>
                    /\ 1 < max_index
                    /\ max_index < Len(points)
                    /\ Len(SubSeq(points, 1, max_index)) < Len(points)
                    /\ Len(SubSeq(points, max_index, Len(points))) < Len(points)

\* the simplification recursed twice and has returned: every point of a
\* track of four was retained
C28_Witness ==
    /\ DirectCall("simplify")
    /\ Len(parsed) = 4
    /\ enhanced_points = <<1, 2, 3, 4>>

(***************************************************************************)
(* The caller's list, and short elevation profiles.                        *)
(***************************************************************************)
\* enhance_track_points_for_rendering was called and has returned: no stage
\* ran, or the first stage that ran was the dedup
EnhanceReturned ==
    pc = "assess" /\ (trace = <<>> \/ trace[1].stage = "dedup")

\* C29: enhance_track_points_for_rendering leaves its argument as it was,
\* at every level: after the call the caller's list has the length and the
\* order it had, and every point of it has the lat, lon, elevation and time
\* it had, although the smoothing and the interpolation write into the
\* points they are given.
C29_InputUntouched ==
    EnhanceReturned =>
        /\ track_points = [i \in 1..Len(parsed) |-> i]
        /\ \A i \in 1..Len(parsed) : heap[track_points[i]] = parsed[i]

\* the interpolation has written a time into a point of the output whose
\* input point has none, and the call has returned
C29_Witness ==
    /\ EnhanceReturned
    /\ quality_level = "high"
    /\ Len(enhanced_points) = Len(parsed)
    /\ \E i \in 1..Len(parsed) :
           /\ parsed[i].time = None
           /\ heap[enhanced_points[i]].time # None

\* C30: the smoothing returns every elevation unchanged when fewer than 10
\* points of the track carry one: the window is then a single point.
C30_ShortProfileUnchanged ==
    (DirectCall("smooth") /\ ElevationCount < 10) =>
        /\ Min2(5, ElevationCount \div 10 + 1) = 1
        /\ enhanced_points = track_points
        /\ \A i \in 1..Len(parsed) : heap[enhanced_points[i]] = parsed[i]

\* a profile of nine elevations with a spike went through the smoothing
C30_Witness ==
    /\ DirectCall("smooth")
    /\ ElevationCount = 9
    /\ \E i \in 2..(Len(parsed) - 1) :
           /\ parsed[i].elevation = Some(<<100, 1>>)
           /\ parsed[i - 1].elevation = Some(<<10, 1>>)
           /\ parsed[i + 1].elevation = Some(<<10, 1>>)
           /\ heap[enhanced_points[i]].elevation = Some(<<100, 1>>)

====
